---- MODULE Spec2Model ----
(***************************************************************************)
(* A model of the explorer backend: the smesher / coinbase-index writes of *)
(* storage/smesher.go, the identifier resolver of                          *)
(* api/httpserver/rest/search.go and the collector's supervisor loop of    *)
(* the collector's main().                                                 *)
(***************************************************************************)
EXTENDS Integers, Sequences, FiniteSets, TLC

(***************************************************************************)
(* Identifiers are strings; Len, Head, Tail and \o are those of Sequences.  *)
(* Rep(c, n) is the string of n copies of the character c.                 *)
(***************************************************************************)
RECURSIVE Rep(_, _)
Rep(c, n) == IF n = 0 THEN "" ELSE c \o Rep(c, n - 1)

\* The empty string.
Empty == ""

\* Width of an address-shaped identifier (search.go: case 42).
AddressLen == 42

\* Width of a hash-shaped identifier (search.go: case 66).
HashLen == 66

\* Smesher ids known to the model (66-character strings).
SmesherIds == {Rep("c", HashLen), Rep("e", HashLen)}

\* Activation ids known to the model (66-character strings).
AtxIds == {Rep("b", HashLen)}

\* Coinbase addresses a caller may pass (the empty string included).
Coinbases == {Empty, Rep("a", AddressLen), Rep("d", AddressLen)}

\* Number of distinct (commitment size, timestamp) payloads callers pass.
NumPayloads == 2

\* The (commitment size, timestamp) pairs of the calls: later activations
\* carry a later timestamp and a different commitment size.
Payloads == {[space |-> k, timestamp |-> 10 + k] : k \in 1..NumPayloads}

\* The error value of a call that succeeded.
Nil == "nil"

\* The store operations of UpdateSmesher / SaveSmesher that may fail on
\* their own (timeout, connection loss).
StoreOps == {"insert", "count", "update"}

VARIABLES
    smeshers,     \* collection `smeshers`: id -> document (unique index on id)
    coinbases,    \* collection `coinbases`: address -> smesher (unique index on address)
    activations,  \* collection `activations`: set of [id, smesher]
    err,          \* the error returned by the last storage call
    pending,      \* the UpdateSmesher call the caller has to repeat, if any
    accounts,     \* collection `accounts`: the addresses stored
    blocks,       \* collection `blocks`: the ids stored
    transactions, \* collection `transactions`: the ids stored
    rewards,      \* collection `rewards`: the object ids (_id) stored
    lastLayer,    \* the highest synced layer (uint32)
    epochNumLayers, \* NetworkInfo.EpochNumLayers (uint32)
    request,      \* the last search request: the id and whether the smesher probe failed
    response,     \* the response to it: status and redirect
    mainPc,       \* main(): the statement the action of the app is at
    proc,         \* the process: running, or the exit code
    pidFile,      \* the marker file /var/run/explorer-collector
    sigs,         \* the signals buffered in the channel sigs (capacity 1)
    sigPc,        \* the goroutine that waits on sigs
    loopPc,       \* the goroutine that runs the collector in a loop
    runErr,       \* what the last c.Run() returned
    backoff,      \* seconds slept since c.Run() last returned
    metricsPc,    \* the goroutine of the metrics endpoint
    httpPc        \* the goroutine of the API server

storeVars == <<smeshers, coinbases, activations, err, pending>>

\* Nothing to repeat.
NoCall == [op |-> "none"]

\* mongo: InsertOne into a collection with a unique index on the key.
\* Returns the error and the collection after the call.
InsertOne(coll, key, doc, failed) ==
    IF failed THEN [err |-> "store error", coll |-> coll]
    ELSE IF key \in DOMAIN coll THEN [err |-> "duplicate key", coll |-> coll]
    ELSE [err |-> Nil, coll |-> [k \in DOMAIN coll \cup {key} |->
                                    IF k = key THEN doc ELSE coll[k]]]

\* The activations that reference a smesher.
ActivationsOf(smesher) == {a \in activations : a.smesher = smesher}

\* mongo: CountDocuments on `activations` filtered by smesher: (count, err);
\* the count is 0 when the call fails.
CountActivations(smesher, failed) ==
    IF failed THEN [count |-> 0, err |-> "store error"]
    ELSE [count |-> Cardinality(ActivationsOf(smesher)), err |-> Nil]

\* mongo: UpdateOne with a $set document, filtered by id. A filter that
\* matches no document is not an error.
UpdateOneSet(coll, key, fields, failed) ==
    IF failed THEN [err |-> "store error", coll |-> coll]
    ELSE IF key \notin DOMAIN coll THEN [err |-> Nil, coll |-> coll]
    ELSE [err |-> Nil,
          coll |-> [coll EXCEPT ![key] =
                      [f \in DOMAIN coll[key] |->
                          IF f \in DOMAIN fields THEN fields[f] ELSE coll[key][f]]]]

\* fmt.Errorf("<prefix>: %w", err).
Errorf(prefix, e) == prefix \o ": " \o e

\* storage.SaveSmesher: one InsertOne into `smeshers`.
SaveSmesher(in, fails) ==
    LET r == InsertOne(smeshers, in.id,
                       [coinbase |-> in.coinbase, cSize |-> in.cSize,
                        atxcount |-> in.atxcount, timestamp |-> in.timestamp],
                       "insert" \in fails)
    IN  /\ smeshers' = r.coll
        /\ err' = IF r.err # Nil THEN Errorf("error save smesher", r.err) ELSE Nil
        /\ pending' = NoCall
        /\ UNCHANGED <<coinbases, activations>>

\* storage.UpdateSmesher: InsertOne into `coinbases`, CountDocuments on
\* `activations`, UpdateOne on `smeshers`. A call that fails after the
\* insert into `coinbases` is left for the caller to repeat.
UpdateSmesher(smesher, coinbase, space, timestamp, fails) ==
    LET ins == InsertOne(coinbases, coinbase, smesher, "insert" \in fails)
        cnt == CountActivations(smesher, "count" \in fails)
        upd == UpdateOneSet(smeshers, smesher,
                            [cSize |-> space, coinbase |-> coinbase,
                             atxcount |-> cnt.count, timestamp |-> timestamp],
                            "update" \in fails)
    IN  IF ins.err # Nil
        THEN /\ err' = Errorf("error insert smesher into coinbases", ins.err)
             /\ pending' = NoCall
             /\ UNCHANGED <<smeshers, coinbases, activations>>
        ELSE /\ coinbases' = ins.coll
             /\ smeshers' = upd.coll
             /\ err' = upd.err
             /\ pending' = IF upd.err # Nil
                           THEN [op |-> "UpdateSmesher", smesher |-> smesher,
                                 coinbase |-> coinbase, space |-> space,
                                 timestamp |-> timestamp]
                           ELSE NoCall
             /\ UNCHANGED activations

\* The collector stores an activation (once per activation id).
SaveActivation(id, smesher) ==
    /\ id \notin {a.id : a \in activations}
    /\ activations' = activations \cup {[id |-> id, smesher |-> smesher]}
    /\ err' = Nil
    /\ pending' = NoCall
    /\ UNCHANGED <<smeshers, coinbases>>

SmesherInputs ==
    {[id |-> id, coinbase |-> c, cSize |-> p.space, atxcount |-> n,
      timestamp |-> p.timestamp] :
        id \in SmesherIds, c \in Coinbases, p \in Payloads,
        n \in 0..Cardinality(AtxIds)}

\* At most one store operation of a call fails on its own.
Faults == {{}} \cup {{op} : op \in StoreOps}

searchVars ==
    <<accounts, blocks, transactions, rewards, lastLayer, epochNumLayers,
      request, response>>

supVars ==
    <<mainPc, proc, pidFile, sigs, sigPc, loopPc, runErr, backoff, metricsPc, httpPc>>

vars == <<storeVars, searchVars, supVars>>

(***************************************************************************)
(* Go integers.  An int (64 bits) is a sign and a magnitude of four        *)
(* 16-bit limbs, most significant first; a uint32 is two limbs.  Every     *)
(* intermediate value stays below 2^31.                                    *)
(***************************************************************************)
Base == 2^16

Zero64 == <<0, 0, 0, 0>>

\* The decimal digit a character stands for, -1 if it is no digit.
DigitOf(ch) ==
    CASE ch = "0" -> 0 [] ch = "1" -> 1 [] ch = "2" -> 2 [] ch = "3" -> 3
      [] ch = "4" -> 4 [] ch = "5" -> 5 [] ch = "6" -> 6 [] ch = "7" -> 7
      [] ch = "8" -> 8 [] ch = "9" -> 9 [] OTHER -> -1

\* The hexadecimal digit a character stands for (either case), -1 if none.
HexOf(ch) ==
    CASE DigitOf(ch) >= 0 -> DigitOf(ch)
      [] ch = "a" \/ ch = "A" -> 10 [] ch = "b" \/ ch = "B" -> 11
      [] ch = "c" \/ ch = "C" -> 12 [] ch = "d" \/ ch = "D" -> 13
      [] ch = "e" \/ ch = "E" -> 14 [] ch = "f" \/ ch = "F" -> 15
      [] OTHER -> -1

\* m * 10 + d on four limbs; over: the result does not fit 64 bits.
MulAdd10(m, d) ==
    LET c0 == m[4] * 10 + d
        c1 == m[3] * 10 + c0 \div Base
        c2 == m[2] * 10 + c1 \div Base
        c3 == m[1] * 10 + c2 \div Base
    IN  [mag |-> <<c3 % Base, c2 % Base, c1 % Base, c0 % Base>>,
         over |-> c3 \div Base > 0]

\* The digits of s read onto the magnitude acc: ok is false on a character
\* that is no digit and on a value that does not fit 64 bits.
RECURSIVE ParseDigits(_, _)
ParseDigits(s, acc) ==
    IF Len(s) = 0 THEN [ok |-> TRUE, mag |-> acc]
    ELSE LET d == DigitOf(Head(s))
             r == MulAdd10(acc, IF d < 0 THEN 0 ELSE d)
         IN  IF d < 0 \/ r.over THEN [ok |-> FALSE, mag |-> acc]
             ELSE ParseDigits(Tail(s), r.mag)

\* strconv.Atoi: an optional sign, then one or more decimal digits; a value
\* outside [-2^63, 2^63 - 1] is a range error.
Atoi(s) ==
    LET signed == Len(s) > 0 /\ (Head(s) = "+" \/ Head(s) = "-")
        neg == Len(s) > 0 /\ Head(s) = "-"
        digits == IF signed THEN Tail(s) ELSE s
        p == ParseDigits(digits, Zero64)
        inRange == \/ p.mag[1] < Base \div 2
                   \/ neg /\ p.mag = <<Base \div 2, 0, 0, 0>>
    IN  IF Len(digits) = 0 \/ ~p.ok \/ ~inRange
        THEN [err |-> TRUE, neg |-> FALSE, mag |-> Zero64]
        ELSE [err |-> FALSE, neg |-> neg /\ p.mag # Zero64, mag |-> p.mag]

\* uint32(id) of an int: the low 32 bits of its two's complement.
Uint32(v) ==
    LET h == v.mag[3]
        l == v.mag[4]
    IN  IF ~v.neg THEN <<h, l>>
        ELSE IF h = 0 /\ l = 0 THEN <<0, 0>>
        ELSE IF l = 0 THEN <<Base - h, 0>>
        ELSE <<Base - 1 - h, Base - l>>

\* A uint32 below 2^31 as two limbs.
U32(n) == <<n \div Base, n % Base>>

\* a <= b on uint32 values.
LessEq32(a, b) == a[1] < b[1] \/ (a[1] = b[1] /\ a[2] <= b[2])

\* The magnitude divided by ten, and the remainder.
DivMod10(m) ==
    LET c1 == m[1]
        c2 == (c1 % 10) * Base + m[2]
        c3 == (c2 % 10) * Base + m[3]
        c4 == (c3 % 10) * Base + m[4]
    IN  [quot |-> <<c1 \div 10, c2 \div 10, c3 \div 10, c4 \div 10>>,
         rem |-> c4 % 10]

DigitChar(d) ==
    CASE d = 0 -> "0" [] d = 1 -> "1" [] d = 2 -> "2" [] d = 3 -> "3"
      [] d = 4 -> "4" [] d = 5 -> "5" [] d = 6 -> "6" [] d = 7 -> "7"
      [] d = 8 -> "8" [] d = 9 -> "9"

RECURSIVE FormatMag(_)
FormatMag(m) ==
    LET r == DivMod10(m)
    IN  IF r.quot = Zero64 THEN DigitChar(r.rem)
        ELSE FormatMag(r.quot) \o DigitChar(r.rem)

\* fmt.Sprintf("%v", id) of an int: its decimal notation.
FormatInt(v) == IF v.neg THEN "-" \o FormatMag(v.mag) ELSE FormatMag(v.mag)

\* A natural number below 2^31 as an int.
IntOf(n) == [err |-> FALSE, neg |-> FALSE, mag |-> <<0, 0, n \div Base, n % Base>>]

\* Whether every character of s is a hexadecimal digit.
RECURSIVE IsHex(_)
IsHex(s) == Len(s) = 0 \/ (HexOf(Head(s)) >= 0 /\ IsHex(Tail(s)))

\* The lower-case notation of a hexadecimal digit.
HexChar(v) ==
    CASE v < 10 -> DigitChar(v)
      [] v = 10 -> "a" [] v = 11 -> "b" [] v = 12 -> "c"
      [] v = 13 -> "d" [] v = 14 -> "e" [] v = 15 -> "f"

\* hex.Decode: the bytes a hexadecimal string stands for, written in lower
\* case (the two cases of a digit decode to the same value).
RECURSIVE HexDecode(_)
HexDecode(s) ==
    IF Len(s) = 0 THEN "" ELSE HexChar(HexOf(Head(s))) \o HexDecode(Tail(s))

\* primitive.ObjectIDFromHex: 24 hexadecimal characters, decoded to the
\* 12 bytes of the object id; an error otherwise.
ObjectIDFromHex(s) ==
    IF Len(s) = 24 /\ IsHex(s)
    THEN [err |-> FALSE, oid |-> HexDecode(s)]
    ELSE [err |-> TRUE, oid |-> ""]

(***************************************************************************)
(* The identifier resolver (GET /search/{id}).                             *)
(***************************************************************************)

\* Highest layer the store has synced, in the model.
MaxLayer == 6

\* Largest number of layers per epoch, in the model.
MaxEpochLayers == 3

\* storage.GetSmeshersCount: the number of Smesher records with the id; 0
\* when the store call fails.
GetSmeshersCount(id, failed) ==
    IF failed THEN 0 ELSE Cardinality({s \in DOMAIN smeshers : s = id})

\* storage.GetAccountsCount with the filter {address: id}.
GetAccountsCount(id) == Cardinality({a \in accounts : a = id})

\* storage.GetBlocksCount with the filter {id: id}.
GetBlocksCount(id) == Cardinality({b \in blocks : b = id})

\* storage.GetTransactionsCount with the filter {id: id}.
GetTransactionsCount(id) == Cardinality({t \in transactions : t = id})

\* storage.GetActivationsCount with the filter {id: id}.
GetActivationsCount(id) == Cardinality({a \in activations : a.id = id})

\* storage.GetRewardsCount with the filter {_id: oid}.
GetRewardsCount(oid) == Cardinality({r \in rewards : r = oid})

\* storage.GetLastLayer.
GetLastLayer == lastLayer

\* No request received yet.
NoRequest == [op |-> "none"]

\* No response written yet.
NoResponse == [status |-> 0, redirect |-> ""]

\* 200 with the body {"redirect": path}.
Found(path) == [status |-> 200, redirect |-> path]

\* 404, "Not found".
NotFound == [status |-> 404, redirect |-> ""]

\* search.go, case 42: account, then block.
Case42(idStr) ==
    IF GetAccountsCount(idStr) > 0 THEN Found("/address/" \o idStr)
    ELSE IF GetBlocksCount(idStr) > 0 THEN Found("/blocks/" \o idStr)
    ELSE NotFound

\* Case66 with the activation probe moved before the transaction probe.
Case66AtxFirst(idStr, failed) ==
    IF GetActivationsCount(idStr) > 0 THEN Found("/atxs/" \o idStr)
    ELSE IF GetTransactionsCount(idStr) > 0 THEN Found("/txs/" \o idStr)
    ELSE IF GetSmeshersCount(idStr, failed) > 0 THEN Found("/smeshers/" \o idStr)
    ELSE NotFound

\* search.go, case 66: transaction, then activation, then smesher.
Case66(idStr, failed) ==
    IF GetTransactionsCount(idStr) > 0 THEN Found("/txs/" \o idStr)
    ELSE IF GetActivationsCount(idStr) > 0 THEN Found("/atxs/" \o idStr)
    ELSE IF GetSmeshersCount(idStr, failed) > 0 THEN Found("/smeshers/" \o idStr)
    ELSE NotFound

\* search.go, the layer / epoch rule on a parsed integer: the comparisons
\* are made on uint32(id), the redirect prints id.
NumericRule(id, layer, numLayers) ==
    LET epoch == layer \div numLayers
    IN  IF ~LessEq32(Uint32(id), U32(epoch))
        THEN IF LessEq32(Uint32(id), U32(layer))
             THEN Found("/layers/" \o FormatInt(id))
             ELSE NotFound
        ELSE Found("/epochs/" \o FormatInt(id))

\* CaseDefault without the reward probe.
CaseDefaultNoReward(idStr) ==
    LET id == Atoi(idStr)
    IN  IF id.err THEN NotFound
        ELSE NumericRule(id, GetLastLayer, epochNumLayers)

\* search.go, default case: a reward by object id, else a decimal integer.
CaseDefault(idStr) ==
    LET objId == ObjectIDFromHex(idStr)
        id == Atoi(idStr)
    IN  IF ~objId.err /\ GetRewardsCount(objId.oid) > 0
        THEN Found("/rewards/" \o idStr)
        ELSE IF id.err THEN NotFound
        ELSE NumericRule(id, GetLastLayer, epochNumLayers)

\* search.go: switch len(idStr).
Resolve(idStr, failed) ==
    CASE Len(idStr) = AddressLen -> Case42(idStr)
      [] Len(idStr) = HashLen -> Case66(idStr, failed)
      [] OTHER -> CaseDefault(idStr)

\* rest.SearchHandler: answers one request; the store is only read.
SearchHandler(idStr, failed) ==
    /\ request' = [op |-> "search", id |-> idStr, failed |-> failed]
    /\ response' = Resolve(idStr, failed)
    /\ UNCHANGED <<storeVars, accounts, blocks, transactions, rewards,
                   lastLayer, epochNumLayers, supVars>>

(***************************************************************************)
(* The collector process: main().                                          *)
(***************************************************************************)

\* time.Sleep(5 * time.Second): the backoff of the restart loop, in seconds.
BackoffSeconds == 5

\* The errors c.Run may return.
RunErrors == {"node unavailable", "store timeout"}

\* The process runs until os.Exit.
Alive == proc = "running"

\* storage.New fails: the action returns the error and main exits with 1.
OpenStorage(ok) ==
    /\ Alive /\ mainPc = "storage"
    /\ IF ok THEN mainPc' = "sql" /\ proc' = proc
             ELSE mainPc' = "returned" /\ proc' = "exit 1"
    /\ UNCHANGED <<pidFile, sigs, sigPc, loopPc, runErr, backoff, metricsPc, httpPc>>
    /\ UNCHANGED <<storeVars, searchVars>>

\* sql.Setup, then the collector is built and SIGINT / SIGTERM are routed
\* to the channel sigs.
SetupSql(ok) ==
    /\ Alive /\ mainPc = "sql"
    /\ IF ok THEN mainPc' = "pidfile" /\ proc' = proc
             ELSE mainPc' = "returned" /\ proc' = "exit 1"
    /\ UNCHANGED <<pidFile, sigs, sigPc, loopPc, runErr, backoff, metricsPc, httpPc>>
    /\ UNCHANGED <<storeVars, searchVars>>

\* The marker file /var/run/explorer-collector: a failed open is ignored, a
\* failed write or close ends the process.
WritePidFile(outcome) ==
    /\ Alive /\ mainPc = "pidfile"
    /\ pidFile' = CASE outcome = "open fails" -> pidFile
                    [] outcome = "write fails" -> ""
                    [] OTHER -> "started"
    /\ IF outcome \in {"ok", "open fails"}
       THEN mainPc' = "go signals" /\ proc' = proc
       ELSE mainPc' = "returned" /\ proc' = "exit 1"
    /\ UNCHANGED <<sigs, sigPc, loopPc, runErr, backoff, metricsPc, httpPc>>
    /\ UNCHANGED <<storeVars, searchVars>>

\* go func() { <-sigs; ... }()
SpawnSignalHandler ==
    /\ Alive /\ mainPc = "go signals"
    /\ mainPc' = "go loop"
    /\ sigPc' = "waiting"
    /\ UNCHANGED <<proc, pidFile, sigs, loopPc, runErr, backoff, metricsPc, httpPc>>
    /\ UNCHANGED <<storeVars, searchVars>>

\* go func() { for { ... c.Run() ... } }(): the loop starts by calling Run.
SpawnLoop ==
    /\ Alive /\ mainPc = "go loop"
    /\ mainPc' = "go metrics"
    /\ loopPc' = "run"
    /\ UNCHANGED <<proc, pidFile, sigs, sigPc, runErr, backoff, metricsPc, httpPc>>
    /\ UNCHANGED <<storeVars, searchVars>>

\* go func() { http.ListenAndServe(metrics) }()
SpawnMetrics ==
    /\ Alive /\ mainPc = "go metrics"
    /\ mainPc' = "go http"
    /\ metricsPc' = "serving"
    /\ UNCHANGED <<proc, pidFile, sigs, sigPc, loopPc, runErr, backoff, httpPc>>
    /\ UNCHANGED <<storeVars, searchVars>>

\* go c.StartHttpServer(apiHostFlag, apiPortFlag); then select {}.
SpawnHttp ==
    /\ Alive /\ mainPc = "go http"
    /\ mainPc' = "select"
    /\ httpPc' = "serving"
    /\ UNCHANGED <<proc, pidFile, sigs, sigPc, loopPc, runErr, backoff, metricsPc>>
    /\ UNCHANGED <<storeVars, searchVars>>

\* SIGINT or SIGTERM is delivered. Before signal.Notify it ends the process
\* (the default disposition); after it, Notify puts the signal on the
\* channel of capacity 1 and drops it when the channel is full.
Signal ==
    /\ Alive
    /\ IF mainPc \in {"storage", "sql"}
       THEN sigs' = sigs /\ proc' = "killed"
       ELSE sigs' = 1 /\ proc' = proc
    /\ UNCHANGED <<mainPc, pidFile, sigPc, loopPc, runErr, backoff, metricsPc, httpPc>>
    /\ UNCHANGED <<storeVars, searchVars>>

\* <-sigs; os.Remove(marker); os.Exit(0)
HandleSignal ==
    /\ Alive /\ sigPc = "waiting" /\ sigs = 1
    /\ sigs' = 0
    /\ sigPc' = "done"
    /\ pidFile' = "removed"
    /\ proc' = "exit 0"
    /\ UNCHANGED <<mainPc, loopPc, runErr, backoff, metricsPc, httpPc>>
    /\ UNCHANGED <<storeVars, searchVars>>

\* c.Run() returns, with an error or with nil.
RunReturns(e) ==
    /\ Alive /\ loopPc = "run"
    /\ loopPc' = "check"
    /\ runErr' = e
    /\ backoff' = 0
    /\ UNCHANGED <<mainPc, proc, pidFile, sigs, sigPc, metricsPc, httpPc>>
    /\ UNCHANGED <<storeVars, searchVars>>

\* LoopCheck that calls Run again at once, whatever Run returned.
LoopCheckNoSleep ==
    /\ Alive /\ loopPc = "check"
    /\ loopPc' = "run"
    /\ UNCHANGED <<mainPc, proc, pidFile, sigs, sigPc, runErr, backoff, metricsPc, httpPc>>
    /\ UNCHANGED <<storeVars, searchVars>>

\* if err := c.Run(); err != nil { fmt.Println(err); time.Sleep(...) }:
\* on an error the loop sleeps, otherwise it calls Run again.
LoopCheck ==
    /\ Alive /\ loopPc = "check"
    /\ loopPc' = IF runErr # Nil THEN "sleep" ELSE "run"
    /\ UNCHANGED <<mainPc, proc, pidFile, sigs, sigPc, runErr, backoff, metricsPc, httpPc>>
    /\ UNCHANGED <<storeVars, searchVars>>

\* time.Sleep returns after the backoff; the loop calls Run again.
LoopWake ==
    /\ Alive /\ loopPc = "sleep"
    /\ backoff' = backoff + BackoffSeconds
    /\ loopPc' = "run"
    /\ UNCHANGED <<mainPc, proc, pidFile, sigs, sigPc, runErr, metricsPc, httpPc>>
    /\ UNCHANGED <<storeVars, searchVars>>

\* http.ListenAndServe of the metrics endpoint returns (its error is
\* dropped): the goroutine ends.
MetricsEnds ==
    /\ Alive /\ metricsPc = "serving"
    /\ metricsPc' = "ended"
    /\ UNCHANGED <<mainPc, proc, pidFile, sigs, sigPc, loopPc, runErr, backoff, httpPc>>
    /\ UNCHANGED <<storeVars, searchVars>>

\* c.StartHttpServer returns: the goroutine ends.
HttpEnds ==
    /\ Alive /\ httpPc = "serving"
    /\ httpPc' = "ended"
    /\ UNCHANGED <<mainPc, proc, pidFile, sigs, sigPc, loopPc, runErr, backoff, metricsPc>>
    /\ UNCHANGED <<storeVars, searchVars>>

\* main() before app.Run.
InitMain ==
    /\ mainPc = "storage"
    /\ proc = "running"
    /\ pidFile \in {"absent", "started"}
    /\ sigs = 0
    /\ sigPc = "off"
    /\ loopPc = "off"
    /\ runErr = Nil
    /\ backoff = 0
    /\ metricsPc = "off"
    /\ httpPc = "off"

\* The process once main() blocks in select {}: the collector runs.
MainRunning ==
    /\ mainPc = "select"
    /\ proc = "running"
    /\ pidFile = "started"
    /\ sigs = 0
    /\ sigPc = "waiting"
    /\ loopPc = "run"
    /\ runErr = Nil
    /\ backoff = 0
    /\ metricsPc = "serving"
    /\ httpPc = "serving"

\* An empty store, no request.
StoreEmpty ==
    /\ smeshers = <<>>
    /\ coinbases = <<>>
    /\ activations = {}
    /\ err = Nil
    /\ pending = NoCall
    /\ accounts = {}
    /\ blocks = {}
    /\ transactions = {}
    /\ rewards = {}
    /\ lastLayer = 0
    /\ epochNumLayers = 1
    /\ request = NoRequest
    /\ response = NoResponse

InitSup == InitMain /\ StoreEmpty

MainStep ==
    \/ \E ok \in BOOLEAN : OpenStorage(ok)
    \/ \E ok \in BOOLEAN : SetupSql(ok)
    \/ \E o \in {"ok", "open fails", "write fails", "close fails"} : WritePidFile(o)
    \/ SpawnSignalHandler
    \/ SpawnLoop
    \/ SpawnMetrics
    \/ SpawnHttp

NextSup ==
    \/ MainStep
    \/ Signal
    \/ HandleSignal
    \/ \E e \in RunErrors \cup {Nil} : RunReturns(e)
    \/ LoopCheck
    \/ LoopWake
    \/ MetricsEnds
    \/ HttpEnds

\* The loop's goroutine is scheduled, and time.Sleep returns.
SupSpec ==
    /\ InitSup
    /\ [][NextSup]_vars
    /\ WF_vars(LoopCheck)
    /\ WF_vars(LoopWake)

(***************************************************************************)
(* The resolver on its own: a store, then requests.                        *)
(***************************************************************************)
\* The requests of the model.
FixedIds ==
    {Rep("a", AddressLen), Rep("d", AddressLen), Rep("c", HashLen), Rep("e", HashLen)}

ObjectIds == {Rep("f", 24), Rep("F", 24), Rep("0", 23) \o "1", Rep("9", 24)}

NumericIds ==
    {FormatInt(IntOf(n)) : n \in 0..(MaxLayer + 1)}
    \cup {"-1", "+1", "007", "-0",
          "4294967296", "4294967297", "4294967301", "-4294967295",
          "-4294967296", "9223372036854775807", "9223372036854775808",
          "-9223372036854775808"}

MalformedIds == {"", "-", "1x", "x", "0x10", "1.5", Rep("f", 23), Rep("g", 24)}

SearchIds == FixedIds \cup ObjectIds \cup NumericIds \cup MalformedIds

\* A Smesher document as SaveSmesher stores it.
SomeSmesher == [coinbase |-> Empty, cSize |-> 1, atxcount |-> 0, timestamp |-> 11]

\* The store the fixed-width probes read: accounts, blocks, transactions,
\* activations and smeshers, each holding the probed id or not.
InitFixedWidth ==
    /\ smeshers \in {[s \in S |-> SomeSmesher] : S \in SUBSET {Rep("c", HashLen)}}
    /\ activations \in SUBSET {[id |-> Rep("c", HashLen), smesher |-> Rep("e", HashLen)]}
    /\ accounts \in SUBSET {Rep("a", AddressLen)}
    /\ blocks \in SUBSET {Rep("a", AddressLen)}
    /\ transactions \in SUBSET {Rep("c", HashLen)}
    /\ rewards = {}
    /\ lastLayer = 0
    /\ epochNumLayers = 1

\* The store the default case reads: rewards, the last layer and the
\* number of layers of an epoch (never 0: the division is defined).
InitNumeric ==
    /\ smeshers = <<>>
    /\ activations = {}
    /\ accounts = {}
    /\ blocks = {}
    /\ transactions = {}
    /\ rewards \in SUBSET {ObjectIDFromHex(Rep("f", 24)).oid,
                           ObjectIDFromHex(Rep("0", 23) \o "1").oid}
    /\ lastLayer \in 0..MaxLayer
    /\ epochNumLayers \in 1..MaxEpochLayers

\* The store asked by the resolver, before any request.
InitSearch ==
    /\ InitFixedWidth \/ InitNumeric
    /\ coinbases = <<>>
    /\ err = Nil
    /\ pending = NoCall
    /\ request = NoRequest
    /\ response = NoResponse
    /\ MainRunning

DoSearch == \E id \in SearchIds, failed \in BOOLEAN : SearchHandler(id, failed)

NextSearch == DoSearch

SearchSpec == InitSearch /\ [][NextSearch]_vars

(***************************************************************************)
(* The smesher store on its own: the collector's writes.                   *)
(***************************************************************************)
Init == StoreEmpty /\ MainRunning

DoSaveSmesher ==
    /\ \E in \in SmesherInputs, f \in SUBSET {"insert"} : SaveSmesher(in, f)
    /\ UNCHANGED <<searchVars, supVars>>

DoUpdateSmesher ==
    /\ \E s \in SmesherIds, c \in Coinbases, p \in Payloads, f \in Faults :
          UpdateSmesher(s, c, p.space, p.timestamp, f)
    /\ UNCHANGED <<searchVars, supVars>>

DoSaveActivation ==
    /\ \E id \in AtxIds, s \in SmesherIds : SaveActivation(id, s)
    /\ UNCHANGED <<searchVars, supVars>>

Next == DoSaveSmesher \/ DoUpdateSmesher \/ DoSaveActivation

Spec == Init /\ [][Next]_vars

(***************************************************************************)
(* Claims about the smesher store.                                         *)
(***************************************************************************)

\* The coinbases entries that point to a smesher.
EntriesOf(s) == {a \in DOMAIN coinbases : coinbases[a] = s}

\* C1: every Smesher record with a non-empty coinbase has exactly one
\* coinbases entry pointing back to it, and every coinbases entry belongs to
\* a Smesher record whose coinbase is that address.
C1_CoinbaseIndexConsistent ==
    /\ \A s \in DOMAIN smeshers :
          smeshers[s].coinbase # Empty =>
              /\ Cardinality(EntriesOf(s)) = 1
              /\ smeshers[s].coinbase \in EntriesOf(s)
    /\ \A a \in DOMAIN coinbases :
          /\ coinbases[a] \in DOMAIN smeshers
          /\ smeshers[coinbases[a]].coinbase = a

\* C2: repeating an UpdateSmesher call that changes the coinbase and failed
\* after its insert into coinbases, with no store failure this time,
\* completes the pair: the call succeeds and the Smesher record holds the
\* coinbase the index holds, no longer the stale one.
C2_RetryCompletesPair ==
    [][\A s \in SmesherIds, c \in Coinbases, p \in Payloads :
          ( /\ pending = [op |-> "UpdateSmesher", smesher |-> s, coinbase |-> c,
                          space |-> p.space, timestamp |-> p.timestamp]
            /\ s \in DOMAIN smeshers
            /\ smeshers[s].coinbase # c
            /\ UpdateSmesher(s, c, p.space, p.timestamp, {}) )
          => ( /\ err' = Nil
               /\ smeshers'[s].coinbase = c
               /\ c \in DOMAIN coinbases' /\ coinbases'[c] = s )]_vars

\* C3: every coinbases entry references a smesher id that has a Smesher
\* record.
C3_IndexReferencesRecord ==
    \A a \in DOMAIN coinbases : coinbases[a] \in DOMAIN smeshers

\* C4: on an existing Smesher record every UpdateSmesher call the store does
\* not fail returns success and sets commitment size, coinbase, activation
\* count and timestamp to the values of the call.
C4_UpdateMutatesRecord ==
    [][\A s \in SmesherIds, c \in Coinbases, p \in Payloads :
          ( /\ s \in DOMAIN smeshers
            /\ UpdateSmesher(s, c, p.space, p.timestamp, {}) )
          => ( /\ err' = Nil
               /\ smeshers'[s] = [cSize |-> p.space, coinbase |-> c,
                                  atxcount |-> Cardinality(ActivationsOf(s)),
                                  timestamp |-> p.timestamp] )]_vars

\* C5: whenever UpdateSmesher writes a Smesher record, on any of its paths,
\* the activation count it stores is the number of Activation records that
\* reference the smesher.
C5_AtxCountRecomputed ==
    [][\A s \in SmesherIds, c \in Coinbases, p \in Payloads, f \in Faults :
          ( /\ s \in DOMAIN smeshers
            /\ UpdateSmesher(s, c, p.space, p.timestamp, f)
            /\ err' = Nil )
          => smeshers'[s].atxcount = Cardinality(ActivationsOf(s))]_vars

(***************************************************************************)
(* Claims about the identifier resolver.                                   *)
(***************************************************************************)

\* The request has been answered.
Answered == request.op = "search"

\* The request's id read as a decimal integer.
Parsed == Atoi(request.id)

\* The current epoch: watermark / layersPerEpoch.
Epoch == lastLayer \div epochNumLayers

\* v <= n for an int v and a natural number n below 2^31, on the integers
\* themselves (no conversion).
IntLeqNat(v, n) ==
    \/ v.neg
    \/ /\ v.mag[1] = 0
       /\ v.mag[2] = 0
       /\ LessEq32(<<v.mag[3], v.mag[4]>>, U32(n))

\* The request reached the numeric branch: its length is neither 42 nor
\* 66, no Reward has it as object id, and it parses as a decimal integer.
Numeric ==
    /\ Answered
    /\ Len(request.id) \notin {AddressLen, HashLen}
    /\ ~(\E r \in rewards : ~ObjectIDFromHex(request.id).err
                            /\ r = ObjectIDFromHex(request.id).oid)
    /\ ~Parsed.err

\* C6: an integer id above the epoch number resolves to /layers/<id> exactly
\* when id <= watermark and to NotFound otherwise, for every integer that
\* parses; values of 2^32 or more included.
C6_LayerRule ==
    (Numeric /\ ~IntLeqNat(Parsed, Epoch)) =>
        IF IntLeqNat(Parsed, lastLayer)
        THEN response = Found("/layers/" \o FormatInt(Parsed))
        ELSE response = NotFound

\* C7: an integer id at or below the epoch number resolves to /epochs/<id>
\* with no existence check; the boundary id = epoch, zero and the negative
\* integers included.
C7_EpochRule ==
    (Numeric /\ IntLeqNat(Parsed, Epoch)) =>
        response = Found("/epochs/" \o FormatInt(Parsed))

\* The priority-ordered reference of the fixed-width identifiers.
Reference42(id) ==
    IF id \in accounts THEN Found("/address/" \o id)
    ELSE IF id \in blocks THEN Found("/blocks/" \o id)
    ELSE NotFound

Reference66(id) ==
    IF id \in transactions THEN Found("/txs/" \o id)
    ELSE IF \E a \in activations : a.id = id THEN Found("/atxs/" \o id)
    ELSE IF id \in DOMAIN smeshers THEN Found("/smeshers/" \o id)
    ELSE NotFound

\* C8: a 42-character id resolves to the Account, else the Block, else
\* NotFound; a 66-character id to the Transaction, else the Activation, else
\* the Smesher, else NotFound: first match wins, for every store content
\* (the store answering every probe).
C8_FixedWidthPriority ==
    (Answered /\ ~request.failed) =>
        /\ Len(request.id) = AddressLen => response = Reference42(request.id)
        /\ Len(request.id) = HashLen => response = Reference66(request.id)

\* C8 witness: an id stored as Transaction, Activation and Smesher was
\* resolved to the Transaction.
C8_Witness ==
    /\ Answered /\ ~request.failed
    /\ request.id \in transactions
    /\ \E a \in activations : a.id = request.id
    /\ request.id \in DOMAIN smeshers
    /\ response = Found("/txs/" \o request.id)

\* C9: an id whose length is neither 42 nor 66 resolves to /rewards/<id>
\* when it is a valid object id of a stored Reward; otherwise it is parsed
\* as a decimal integer and handed to the layer / epoch rule, and it is
\* NotFound when that parse fails.
C9_DefaultCase ==
    (Answered /\ Len(request.id) \notin {AddressLen, HashLen}) =>
        LET objId == ObjectIDFromHex(request.id)
        IN  IF ~objId.err /\ objId.oid \in rewards
            THEN response = Found("/rewards/" \o request.id)
            ELSE IF Parsed.err THEN response = NotFound
            ELSE response = NumericRule(Parsed, lastLayer, epochNumLayers)

\* C9 witness: an id of 24 decimal digits, both an object id and an
\* integer, was resolved to the stored Reward.
C9_Witness ==
    /\ Answered
    /\ Len(request.id) = 24
    /\ ~Parsed.err
    /\ ObjectIDFromHex(request.id).oid \in rewards
    /\ response = Found("/rewards/" \o request.id)

(***************************************************************************)
(* Claims about the supervisor loop.                                       *)
(***************************************************************************)

\* C10: the live-sync supervisor loop never stops: after every return of
\* Run, whatever the error, Run is invoked again (for as long as the process
\* lives: os.Exit in the signal goroutine is the only way out), and when Run
\* returned an error the backoff sleep lies between that return and the
\* next invocation of Run.
C10_SupervisorRestarts ==
    /\ [][(loopPc = "check" /\ loopPc' # "check")
             => loopPc' = IF runErr # Nil THEN "sleep" ELSE "run"]_vars
    /\ [][(loopPc = "sleep" /\ loopPc' # "sleep") => loopPc' = "run"]_vars
    /\ [][(loopPc \in {"check", "sleep"} /\ loopPc' = "run" /\ runErr # Nil)
             => backoff' = BackoffSeconds]_vars
    /\ (loopPc = "check") ~> (loopPc = "run" \/ ~Alive)

\* C10 witness: Run has been invoked again after it returned an error and
\* the loop slept for the backoff.
C10_Witness ==
    /\ Alive
    /\ loopPc = "run"
    /\ runErr # Nil
    /\ backoff = BackoffSeconds

====
